---- MODULE Spec2Model ----
(***************************************************************************)
(* Model of src/src/strings/prefix_function.py: the prefix function        *)
(* (_create_prefix_func) and the Knuth-Morris-Pratt search built on it     *)
(* (find_positions_of_query).                                              *)
(*                                                                         *)
(* Strings are sequences of one-character strings.  Python indexes from 0, *)
(* TLA+ sequences from 1: At(s, k) is Python's s[k].  Both functions are   *)
(* sequential; every loop iteration is one action, so that the fallback    *)
(* loop can be observed step by step.                                      *)
(***************************************************************************)
EXTENDS Integers, Sequences, FiniteSets, TLC

VARIABLES
    caller,                \* "find": called by find_positions_of_query; "direct": _create_prefix_func called on its own
    pc,                    \* position in the code
    text, query,           \* arguments of find_positions_of_query
    concatenation,         \* find_positions_of_query: f"{query}#{text}", <<>> while not built
    relevant_prefix_func,  \* find_positions_of_query: prefix_func[len(query) + 1 :]
    index,                 \* find_positions_of_query: enumerate() index of the scan
    matches,               \* find_positions_of_query: recorded positions
    string,                \* argument of _create_prefix_func
    prefix_func,           \* _create_prefix_func: the array under construction
    i,                     \* _create_prefix_func: enumerate() index of the main loop
    cur_max_length,        \* _create_prefix_func: candidate length
    fallbacks,             \* number of executions of line 84 so far
    increments,            \* number of executions of line 88 so far
    returned,              \* "pending", "None", "list", "array", "IndexError", "AssertionError"
    value                  \* the list or array returned

vars == <<caller, pc, text, query, concatenation, relevant_prefix_func, index,
          matches, string, prefix_func, i, cur_max_length, fallbacks,
          increments, returned, value>>

findVars == <<text, query, concatenation, relevant_prefix_func, index, matches>>
pfVars == <<string, prefix_func, i, cur_max_length, fallbacks, increments>>

----------------------------------------------------------------------------
(* Bounds of the model *)

MaxText == 4
MaxQuery == 3
MaxString == 6

\* The separator of line 50
Sep == "#"

\* The characters the inputs are drawn from; the separator is one of them,
\* since nothing in the code keeps it out of text or query.
Alphabet == {"a", "b", Sep}

Strings(n) == UNION {[1..k -> Alphabet] : k \in 0..n}

----------------------------------------------------------------------------
(* Python's sequence operations *)

\* s[k], with Python's negative indices counting from the end
At(s, k) == IF k >= 0 THEN s[k + 1] ELSE s[Len(s) + k + 1]

\* s[k:] for k >= 0
SliceFrom(s, k) == [j \in 1..(IF Len(s) > k THEN Len(s) - k ELSE 0) |-> s[j + k]]

\* [-1] * n
Unset(n) == [j \in 1..n |-> -1]

----------------------------------------------------------------------------
(* _create_prefix_func, lines 65-94 *)

\* lines 71-74: allocate the array and set entry 0; on an empty string the
\* assignment prefix_func[0] = 0 raises IndexError
PfInit ==
    /\ pc = "pf_init"
    /\ IF Len(string) = 0
       THEN /\ prefix_func' = Unset(0)
            /\ returned' = "IndexError"
            /\ pc' = "raised"
            /\ i' = i
       ELSE /\ prefix_func' = [Unset(Len(string)) EXCEPT ![1] = 0]
            /\ returned' = returned
            /\ pc' = "pf_for"
            /\ i' = 0
    /\ UNCHANGED <<caller, findVars, string, cur_max_length, fallbacks, increments, value>>

\* PfFor with the candidate started at i - 1 instead of prefix_func[i - 1]
PfForFromIndex ==
    /\ pc = "pf_for"
    /\ IF i >= Len(string)
       THEN /\ pc' = "pf_assert"
            /\ UNCHANGED <<i, cur_max_length>>
       ELSE IF i = 0
       THEN /\ i' = i + 1
            /\ UNCHANGED <<pc, cur_max_length>>
       ELSE /\ cur_max_length' = i - 1
            /\ pc' = "pf_while"
            /\ i' = i
    /\ UNCHANGED <<caller, findVars, string, prefix_func, fallbacks, increments, returned, value>>

\* lines 76-80: the head of the for loop, up to the start of the while loop
PfFor ==
    /\ pc = "pf_for"
    /\ IF i >= Len(string)
       THEN /\ pc' = "pf_assert"
            /\ UNCHANGED <<i, cur_max_length>>
       ELSE IF i = 0
       THEN /\ i' = i + 1
            /\ UNCHANGED <<pc, cur_max_length>>
       ELSE /\ cur_max_length' = At(prefix_func, i - 1)
            /\ pc' = "pf_while"
            /\ i' = i
    /\ UNCHANGED <<caller, findVars, string, prefix_func, fallbacks, increments, returned, value>>

\* line 82: the condition of the while loop (char is string[i])
FallbackNeeded ==
    cur_max_length > 0 /\ At(string, cur_max_length) # At(string, i)

\* PfFallback reading prefix_func[cur_max_length] instead of
\* prefix_func[cur_max_length - 1]
PfFallbackOffByOne ==
    /\ pc = "pf_while"
    /\ FallbackNeeded
    /\ cur_max_length' = At(prefix_func, cur_max_length)
    /\ fallbacks' = fallbacks + 1
    /\ UNCHANGED <<caller, pc, findVars, string, prefix_func, i, increments, returned, value>>

\* lines 82-84: one iteration of the fallback loop
PfFallback ==
    /\ pc = "pf_while"
    /\ FallbackNeeded
    /\ cur_max_length' = At(prefix_func, cur_max_length - 1)
    /\ fallbacks' = fallbacks + 1
    /\ UNCHANGED <<caller, pc, findVars, string, prefix_func, i, increments, returned, value>>

\* lines 82, 86-90: the loop is left, the candidate is extended if the
\* characters agree, the entry is stored and the for loop goes on
PfExtend ==
    /\ pc = "pf_while"
    /\ ~FallbackNeeded
    /\ IF At(string, cur_max_length) = At(string, i)
       THEN /\ cur_max_length' = cur_max_length + 1
            /\ increments' = increments + 1
       ELSE UNCHANGED <<cur_max_length, increments>>
    /\ prefix_func' = [prefix_func EXCEPT ![i + 1] = cur_max_length']
    /\ i' = i + 1
    /\ pc' = "pf_for"
    /\ UNCHANGED <<caller, findVars, string, fallbacks, returned, value>>

\* lines 92-94: the assertion and the return, to find_positions_of_query
\* (line 51) or to the direct caller
PfReturn ==
    /\ pc = "pf_assert"
    /\ IF \E j \in 1..Len(prefix_func) : prefix_func[j] = -1
       THEN /\ returned' = "AssertionError"
            /\ pc' = "raised"
            /\ value' = value
       ELSE IF caller = "find"
       THEN /\ pc' = "fp_slice"
            /\ UNCHANGED <<returned, value>>
       ELSE /\ returned' = "array"
            /\ value' = prefix_func
            /\ pc' = "done"
    /\ UNCHANGED <<caller, findVars, pfVars>>

----------------------------------------------------------------------------
(* find_positions_of_query, lines 47-62 *)

\* QueryTooLong with the separator counted into the text's length
QueryTooLongOffByOne == Len(query) > Len(text) + 1

\* line 47
QueryTooLong == Len(query) > Len(text)

\* lines 47-48
FindShortCircuit ==
    /\ pc = "find"
    /\ QueryTooLong
    /\ returned' = "None"
    /\ pc' = "done"
    /\ UNCHANGED <<caller, findVars, pfVars, value>>

\* lines 50-51: join and call _create_prefix_func
FindConcat ==
    /\ pc = "find"
    /\ ~QueryTooLong
    /\ concatenation' = query \o <<Sep>> \o text
    /\ string' = concatenation'
    /\ pc' = "pf_init"
    /\ UNCHANGED <<caller, text, query, relevant_prefix_func, index, matches,
                   prefix_func, i, cur_max_length, fallbacks, increments, returned, value>>

\* lines 53-54
FindSlice ==
    /\ pc = "fp_slice"
    /\ matches' = <<>>
    /\ relevant_prefix_func' = SliceFrom(prefix_func, Len(query) + 1)
    /\ index' = 0
    /\ pc' = "fp_scan"
    /\ UNCHANGED <<caller, text, query, concatenation, pfVars, returned, value>>

\* MatchPosition without the - 1: the start taken one too far to the left
MatchPositionOffByOne == index - Len(query)

\* line 60: the position recorded for a full-length entry at `index`
MatchPosition == index - (Len(query) - 1)

\* lines 55-60: one iteration of the scan
FindScan ==
    /\ pc = "fp_scan"
    /\ index < Len(relevant_prefix_func)
    /\ matches' = IF At(relevant_prefix_func, index) = Len(query)
                  THEN Append(matches, MatchPosition)
                  ELSE matches
    /\ index' = index + 1
    /\ UNCHANGED <<caller, pc, text, query, concatenation, relevant_prefix_func,
                   pfVars, returned, value>>

\* MatchesOrNone as a plain `return matches`
MatchesAlways == "list"

\* line 62: `matches or None`
MatchesOrNone == IF matches = <<>> THEN "None" ELSE "list"

\* line 62
FindReturn ==
    /\ pc = "fp_scan"
    /\ index >= Len(relevant_prefix_func)
    /\ returned' = MatchesOrNone
    /\ value' = matches
    /\ pc' = "done"
    /\ UNCHANGED <<caller, findVars, pfVars>>

----------------------------------------------------------------------------
(* Specifications *)

\* the locals of both functions before either has run
Fresh ==
    /\ concatenation = <<>>
    /\ relevant_prefix_func = <<>>
    /\ index = 0
    /\ matches = <<>>
    /\ prefix_func = <<>>
    /\ i = 0
    /\ cur_max_length = 0
    /\ fallbacks = 0
    /\ increments = 0
    /\ returned = "pending"
    /\ value = <<>>

\* a call find_positions_of_query(text, query)
Init ==
    /\ caller = "find"
    /\ pc = "find"
    /\ text \in Strings(MaxText)
    /\ query \in Strings(MaxQuery)
    /\ string = <<>>
    /\ Fresh

Next ==
    \/ FindShortCircuit
    \/ FindConcat
    \/ PfInit
    \/ PfFor
    \/ PfFallback
    \/ PfExtend
    \/ PfReturn
    \/ FindSlice
    \/ FindScan
    \/ FindReturn

Spec == Init /\ [][Next]_vars

\* a call _create_prefix_func(string)
PfCallInit ==
    /\ caller = "direct"
    /\ pc = "pf_init"
    /\ text = <<>>
    /\ query = <<>>
    /\ string \in Strings(MaxString)
    /\ Fresh

PfNext ==
    \/ PfInit
    \/ PfFor
    \/ PfFallback
    \/ PfExtend
    \/ PfReturn

\* the call runs to completion: a Python call is not suspended
PfSpec == PfCallInit /\ [][PfNext]_vars /\ WF_vars(PfNext)

----------------------------------------------------------------------------
(* Reference definitions, independent of the algorithm *)

Range(s) == {s[j] : j \in 1..Len(s)}

\* q occurs in t at zero-based position p: t[p : p + len(q)] == q
Occurs(t, q, p) ==
    /\ p \in 0..(Len(t) - Len(q))
    /\ \A j \in 1..Len(q) : t[p + j] = q[j]

\* every position at which q occurs in t
Occurrences(t, q) == {p \in 0..(Len(t) - Len(q)) : Occurs(t, q, p)}

StrictlyIncreasing(s) == \A j \in 1..(Len(s) - 1) : s[j] < s[j + 1]

\* the first k characters of s[0..n] are also its last k characters
IsBorder(s, n, k) == \A j \in 1..k : s[j] = s[n + 1 - k + j]

\* the length of the longest proper prefix of s[0..n] that is also a suffix
LongestBorder(s, n) ==
    CHOOSE k \in 0..n :
        /\ IsBorder(s, n, k)
        /\ \A m \in (k + 1)..n : ~IsBorder(s, n, m)

FindDone == caller = "find" /\ pc = "done"
PfDone == caller = "direct" /\ pc = "done"

----------------------------------------------------------------------------
(* Properties *)

\* C1: completeness of find_positions_of_query: for all text and query,
\* every position p, 0 <= p <= len(text) - len(query), at which query occurs
\* in text is in the returned list.
C1_Completeness ==
    FindDone =>
        \A p \in Occurrences(text, query) :
            returned = "list" /\ p \in Range(value)

\* C2: soundness of find_positions_of_query: for all text and query, every
\* returned position p is a start index into text,
\* 0 <= p <= len(text) - len(query), at which query occurs.
C2_Soundness ==
    (FindDone /\ returned = "list") =>
        \A j \in 1..Len(value) : Occurs(text, query, value[j])

\* the documented precondition: the separator is in neither text nor query
SepAbsent == Sep \notin (Range(text) \cup Range(query))

\* C3: when '#' occurs in neither text nor query, query is not empty and
\* len(query) <= len(text), the result is the increasing list of all the
\* positions at which query occurs in text, or None when there is none.
C3_ExactUnderPrecondition ==
    (FindDone /\ SepAbsent /\ Len(query) >= 1 /\ Len(query) <= Len(text)) =>
        IF Occurrences(text, query) = {}
        THEN returned = "None"
        ELSE /\ returned = "list"
             /\ StrictlyIncreasing(value)
             /\ Range(value) = Occurrences(text, query)

\* two overlapping occurrences are both reported
C3_Witness ==
    /\ FindDone /\ SepAbsent /\ Len(query) >= 2
    /\ returned = "list" /\ Len(value) >= 2
    /\ value[2] - value[1] < Len(query)

\* C4: for every non-empty string, _create_prefix_func returns an array a of
\* the string's length with a[0] = 0, 0 <= a[i] <= i, no entry -1, and a[i]
\* the length of the longest proper prefix of s[0..i] that is also a suffix
\* of it (so s[a[i] - 1] = s[i] whenever a[i] > 0).
C4_PrefixFunctionCorrect ==
    (caller = "direct" /\ pc \in {"done", "raised"} /\ string # <<>>) =>
        /\ returned = "array"
        /\ Len(value) = Len(string)
        /\ At(value, 0) = 0
        /\ \A n \in 0..(Len(string) - 1) :
              /\ 0 <= At(value, n) /\ At(value, n) <= n
              /\ At(value, n) = LongestBorder(string, n)
              /\ At(value, n) > 0 => At(string, At(value, n) - 1) = At(string, n)

\* an array with a border of length 2 at its end, built with a fallback
C4_Witness ==
    /\ PfDone /\ Len(string) >= 4 /\ fallbacks >= 1
    /\ At(value, Len(string) - 1) >= 2

\* C5: in every call of find_positions_of_query the separator occurs in
\* neither query nor text, so that in the joined sequence it appears only at
\* index len(query).
C5_SeparatorUnique ==
    (caller = "find" /\ concatenation # <<>>) =>
        \A j \in 0..(Len(concatenation) - 1) :
            At(concatenation, j) = Sep <=> j = Len(query)

\* C6: when len(query) > len(text), find_positions_of_query returns None,
\* and neither the joined sequence was built nor _create_prefix_func called.
C6_ShortCircuit ==
    (caller = "find" /\ Len(query) > Len(text)) =>
        /\ pc \in {"find", "done"}
        /\ concatenation = <<>> /\ string = <<>> /\ prefix_func = <<>>
        /\ pc = "done" => returned = "None"

C6_Witness ==
    FindDone /\ Len(query) > Len(text) /\ Len(text) >= 1 /\ returned = "None"

\* C7: find_positions_of_query returns None or a non-empty list of integers
\* in strictly increasing order; an empty list is never returned, and None
\* is returned exactly when the scan recorded no position.
C7_NoneOrNonEmptyIncreasing ==
    FindDone =>
        /\ returned \in {"None", "list"}
        /\ returned = "list" =>
              /\ value # <<>>
              /\ value = matches
              /\ \A j \in 1..Len(value) : value[j] \in Int
              /\ StrictlyIncreasing(value)
        /\ returned = "None" <=> matches = <<>>

C7_Witness ==
    FindDone /\ returned = "list" /\ Len(value) >= 2

\* C8: called on a zero-length sequence, _create_prefix_func returns an
\* empty array and raises no error.
C8_EmptyReturnsEmpty ==
    (caller = "direct" /\ string = <<>>) =>
        /\ returned \notin {"IndexError", "AssertionError"}
        /\ pc \in {"done", "raised"} => (returned = "array" /\ value = <<>>)

\* C9: every execution of the fallback step k = prefix_func[k-1] reads an
\* entry already computed (index k-1 < i, value not -1) and gives k a value
\* with 0 <= new k < old k; and the call on a non-empty string returns.
C9_FallbackTerminates ==
    /\ [][PfFallback =>
            /\ 0 <= cur_max_length - 1 /\ cur_max_length - 1 < i
            /\ At(prefix_func, cur_max_length - 1) # -1
            /\ 0 <= cur_max_length' /\ cur_max_length' < cur_max_length]_vars
    /\ (pc = "pf_init" /\ string # <<>>) ~> (pc = "done" /\ returned = "array")

\* two fallback steps in a row, the first one to a candidate above 0
C9_Witness ==
    /\ caller = "direct" /\ pc = "pf_while"
    /\ fallbacks >= 1 /\ cur_max_length > 0 /\ FallbackNeeded

\* C10: the number of fallback steps executed so far never exceeds the
\* number of increments of k executed so far, nor the string's length.
C10_FallbacksPaidByIncrements ==
    (caller = "direct" /\ string # <<>>) =>
        /\ fallbacks <= increments
        /\ fallbacks <= Len(string)

\* a call in which every increment but the last was paid back
C10_Witness ==
    PfDone /\ fallbacks >= 2 /\ fallbacks = increments

====
